---------------------------- MODULE Spec2Model ----------------------------
(***************************************************************************)
(* Model of main.py: the thermal-cycling script that drives a Keithley     *)
(* power supply (two Peltier channels) and a climatic chamber.             *)
(*                                                                         *)
(* The script is sequential.  The program counter pc is the number of the  *)
(* source line about to be executed; Code maps each executable line to     *)
(* its statement.  A str decoded from the bytes of the chamber is the      *)
(* sequence of its code points, so that decode and split(" ") act on       *)
(* characters; the identity string of the supply is a sequence of one-     *)
(* character strings; text built by the script is a TLA+ string.  A        *)
(* Python value carries its type, because the script compares a str with   *)
(* an int.                                                                 *)
(***************************************************************************)
EXTENDS Integers, Sequences, FiniteSets, TLC

(***************************************************************************)
(* Python values and text                                                  *)
(***************************************************************************)

PyStr(s) == [t |-> "str", v |-> s]
PyInt(n) == [t |-> "int", v |-> 0, i |-> n]
PyNone == [t |-> "None", v |-> ""]

\* A str value carries v, an int value carries i; the unused field of PyInt
\* is 0 and is never compared with text.
PyEqual(a, b) ==
    /\ a.t = b.t
    /\ IF a.t = "int" THEN a.i = b.i ELSE a.v = b.v

PyNotEqual(a, b) == ~PyEqual(a, b)

Digit(d) == CASE d = 0 -> "0" [] d = 1 -> "1" [] d = 2 -> "2" [] d = 3 -> "3"
              [] d = 4 -> "4" [] d = 5 -> "5" [] d = 6 -> "6" [] d = 7 -> "7"
              [] d = 8 -> "8" [] d = 9 -> "9"

RECURSIVE NatStr(_)
NatStr(n) == IF n < 10 THEN Digit(n) ELSE NatStr(n \div 10) \o Digit(n % 10)

\* str(temperature) for an int
str(n) == IF n < 0 THEN "-" \o NatStr(0 - n) ELSE NatStr(n)

\* the text of a sequence of one-character strings
RECURSIVE Join(_)
Join(cs) == IF cs = <<>> THEN "" ELSE Head(cs) \o Join(Tail(cs))

\* response.split(" "): the pieces between single spaces (code point 32),
\* empty pieces kept; the result always has at least one piece.
RECURSIVE SplitOn(_, _, _, _)
SplitOn(cs, sep, cur, acc) ==
    IF cs = <<>> THEN Append(acc, cur)
    ELSE IF Head(cs) = sep THEN SplitOn(Tail(cs), sep, <<>>, Append(acc, cur))
    ELSE SplitOn(Tail(cs), sep, Append(cur, Head(cs)), acc)

split(cs) == SplitOn(cs, 32, <<>>, <<>>)

\* needle in hay, both sequences of characters
Contains(hay, needle) ==
    \E k \in 0..(Len(hay) - Len(needle)) :
        \A j \in 1..Len(needle) : hay[k + j] = needle[j]

\* bytes.decode() of line 15: UTF-8, errors="strict".  Bytes are numbers,
\* and the str that comes out is the sequence of its code points.
\* The number of bytes of the sequence that a lead byte starts, 0 for a
\* byte that starts none (a continuation byte, 0xC0, 0xC1, 0xF5 and up).
SeqLen(b) ==
    IF b < 128 THEN 1
    ELSE IF b \in 194..223 THEN 2
    ELSE IF b \in 224..239 THEN 3
    ELSE IF b \in 240..244 THEN 4
    ELSE 0

Cont(b) == b \in 128..191

\* The bytes from position k are one well-formed sequence: no overlong
\* form, no surrogate, nothing above U+10FFFF, not cut short.
WellFormed(bytes, k) ==
    LET n == SeqLen(bytes[k])
    IN  /\ n > 0
        /\ k + n - 1 <= Len(bytes)
        /\ n >= 2 =>
              CASE bytes[k] = 224 -> bytes[k + 1] \in 160..191
                [] bytes[k] = 237 -> bytes[k + 1] \in 128..159
                [] bytes[k] = 240 -> bytes[k + 1] \in 144..191
                [] bytes[k] = 244 -> bytes[k + 1] \in 128..143
                [] OTHER -> Cont(bytes[k + 1])
        /\ n >= 3 => Cont(bytes[k + 2])
        /\ n >= 4 => Cont(bytes[k + 3])

CodePoint(bytes, k) ==
    LET n == SeqLen(bytes[k])
    IN  CASE n = 1 -> bytes[k]
          [] n = 2 -> (bytes[k] - 192) * 64 + (bytes[k + 1] - 128)
          [] n = 3 -> (bytes[k] - 224) * 4096 + (bytes[k + 1] - 128) * 64
                          + (bytes[k + 2] - 128)
          [] n = 4 -> (bytes[k] - 240) * 262144 + (bytes[k + 1] - 128) * 4096
                          + (bytes[k + 2] - 128) * 64 + (bytes[k + 3] - 128)

RECURSIVE Utf8Ok(_, _)
Utf8Ok(bytes, k) ==
    \/ k > Len(bytes)
    \/ (WellFormed(bytes, k) /\ Utf8Ok(bytes, k + SeqLen(bytes[k])))

RECURSIVE Utf8Chars(_, _)
Utf8Chars(bytes, k) ==
    IF k > Len(bytes) \/ ~WellFormed(bytes, k) THEN <<>>
    ELSE <<CodePoint(bytes, k)>>
             \o Utf8Chars(bytes, k + SeqLen(bytes[k]))

\* decode raises UnicodeDecodeError
DecodeFails(bytes) == ~Utf8Ok(bytes, 1)

\* The str that decode returns (when it raises: the characters before the
\* offending byte)
decode(bytes) == Utf8Chars(bytes, 1)

(***************************************************************************)
(* Chamber client: check_chamber and set_chamber                           *)
(***************************************************************************)

StatusRequest == "$01I \r"
SetSuffix == " 10 100 1200 010000000000000000000 \r"

\* One exchange on the socket as the function sees it: whether sendall
\* succeeds, whether recv returns before the 5 s timeout, and the bytes.
Exchange(send_ok, recv_ok, bytes) ==
    [send_ok |-> send_ok, recv_ok |-> recv_ok, bytes |-> bytes]

\* check_chamber(sock): the messages sent, the exception raised ("" for
\* none) and the value returned.
check_chamber(x) ==
    LET message == StatusRequest
        response == decode(x.bytes)
        split_response == split(response)
    IN  IF ~x.send_ok
        THEN [sent |-> <<>>, exc |-> "OSError", ret |-> PyNone]
        ELSE IF ~x.recv_ok
        THEN [sent |-> <<message>>, exc |-> "timeout", ret |-> PyNone]
        ELSE IF DecodeFails(x.bytes)
        THEN [sent |-> <<message>>, exc |-> "UnicodeDecodeError", ret |-> PyNone]
        ELSE IF Len(split_response) < 2
        THEN [sent |-> <<message>>, exc |-> "IndexError", ret |-> PyNone]
        ELSE [sent |-> <<message>>, exc |-> "",
              ret |-> PyStr(split_response[2])]

\* set_chamber that treats a read-back other than the target as an error
set_chamber_strict(set_ok, x, temperature) ==
    LET message == "$01E " \o str(temperature) \o SetSuffix
        announce == "Now setting the temperature to " \o str(temperature)
        q == check_chamber(x)
    IN  IF ~set_ok
        THEN [sent |-> <<>>, exc |-> "OSError", printed |-> <<announce>>]
        ELSE IF q.exc # ""
        THEN [sent |-> <<message>> \o q.sent, exc |-> q.exc,
              printed |-> <<announce>>]
        ELSE IF PyEqual(q.ret, PyInt(temperature))
        THEN [sent |-> <<message>> \o q.sent, exc |-> "",
              printed |-> <<announce, "Temperature set properly!">>]
        ELSE [sent |-> <<message>> \o q.sent, exc |-> "ValueError",
              printed |-> <<announce>>]

\* set_chamber(sock, temperature): set_ok is the outcome of its own sendall,
\* x the exchange of the read-back query.  printed is the console output.
set_chamber(set_ok, x, temperature) ==
    LET message == "$01E " \o str(temperature) \o SetSuffix
        announce == "Now setting the temperature to " \o str(temperature)
        q == check_chamber(x)
    IN  IF ~set_ok
        THEN [sent |-> <<>>, exc |-> "OSError", printed |-> <<announce>>]
        ELSE IF q.exc # ""
        THEN [sent |-> <<message>> \o q.sent, exc |-> q.exc,
              printed |-> <<announce>>]
        ELSE [sent |-> <<message>> \o q.sent, exc |-> "",
              printed |-> IF PyEqual(q.ret, PyInt(temperature))
                          THEN <<announce, "Temperature set properly!">>
                          ELSE <<announce>>]

(***************************************************************************)
(* What the devices and the operator may answer                            *)
(***************************************************************************)

\* Chamber answers to a status request, as bytes:
\*   "1 -40 0"  "1 0 0"  "1 -40.0 0"  "1 25 0"  "1 Tx 0"
\*   "1"  ""  "1  0"  "1 -40"  and one byte that is not UTF-8,
\*   "1 25", the degree sign in its two bytes 194 176, " 0";  "1 25,0 0";
\*   and "1 25" followed by the first byte of a degree sign cut short
ChamberReplies ==
    { <<49, 32, 45, 52, 48, 32, 48>>, <<49, 32, 48, 32, 48>>,
      <<49, 32, 45, 52, 48, 46, 48, 32, 48>>, <<49, 32, 50, 53, 32, 48>>,
      <<49, 32, 84, 120, 32, 48>>, <<49>>, <<>>, <<49, 32, 32, 48>>,
      <<49, 32, 45, 52, 48>>, <<255>>,
      <<49, 32, 50, 53, 194, 176, 32, 48>>,
      <<49, 32, 50, 53, 44, 48, 32, 48>>, <<49, 32, 50, 53, 194>> }

\* Every exchange a status query can meet.  A failed sendall or a recv that
\* times out carries no bytes.
QueryExchanges ==
    { Exchange(TRUE, TRUE, bytes) : bytes \in ChamberReplies }
        \cup { Exchange(FALSE, FALSE, <<>>), Exchange(TRUE, FALSE, <<>>) }

\* Identity strings the supply may return to *IDN?
\*   "Keithley"  "xKeithley 2"  "Tek"  ""  "Keith"  "keithley"
SupplyIds ==
    { <<"K", "e", "i", "t", "h", "l", "e", "y">>,
      <<"x", "K", "e", "i", "t", "h", "l", "e", "y", " ", "2">>,
      <<"T", "e", "k">>, <<>>, <<"K", "e", "i", "t", "h">>,
      <<"k", "e", "i", "t", "h", "l", "e", "y">> }

VendorMarker == <<"K", "e", "i", "t", "h", "l", "e", "y">>

ChamberAddress == [ip |-> "10.10.21.238", port |-> 2049]
PeerNames ==
    { ChamberAddress, [ip |-> "10.10.21.239", port |-> 2049],
      [ip |-> "10.10.21.238", port |-> 2050] }

\* Outcomes of pyvisa.ResourceManager(), of rm.open_resource and of
\* s.connect.  Line 73 catches VisaIOError only and line 94 socket.timeout
\* only; nothing catches what line 69 raises.
ManagerOutcomes == {"ok", "OSError"}
OpenOutcomes == {"ok", "VisaIOError", "OSError", "ValueError"}
ConnectOutcomes == {"ok", "timeout", "ConnectionRefusedError"}

(***************************************************************************)
(* The power supply as the commands of the script act on it                *)
(***************************************************************************)

Channels == {1, 2}

\* enab[c]: the output stage of channel c is enabled; outp: the outputs are
\* engaged; volt and curr: the programmed values, "?" before configuration.
SupplyWrite(sup, cmd) ==
    CASE cmd = "inst:sel ch1" -> [sup EXCEPT !.sel = 1]
      [] cmd = "inst:sel ch2" -> [sup EXCEPT !.sel = 2]
      [] cmd = "source:outp:enab on" -> [sup EXCEPT !.enab[sup.sel] = TRUE]
      [] cmd = "source:outp:enab off" -> [sup EXCEPT !.enab[sup.sel] = FALSE]
      [] cmd = "source:outp on" -> [sup EXCEPT !.outp = TRUE]
      [] cmd = ":outp off" -> [sup EXCEPT !.outp = FALSE]
      [] cmd = "source:volt 5V" -> [sup EXCEPT !.volt[sup.sel] = "5V"]
      [] cmd = "source:volt 10.25V" -> [sup EXCEPT !.volt[sup.sel] = "10.25V"]
      [] cmd = "source:curr MAX" -> [sup EXCEPT !.curr[sup.sel] = "MAX"]

SupplyQuery(sup, cmd) ==
    CASE cmd = "source:volt?" -> sup.volt[sup.sel]
      [] cmd = "source:curr?" -> sup.curr[sup.sel]

\* The kind of a write, for counting
Class(cmd) ==
    CASE cmd \in {"inst:sel ch1", "inst:sel ch2"} -> "sel"
      [] cmd = "source:outp:enab on" -> "enab_on"
      [] cmd = "source:outp:enab off" -> "enab_off"
      [] cmd = "source:outp on" -> "outp_on"
      [] cmd = ":outp off" -> "outp_off"
      [] OTHER -> "set"

Classes == {"sel", "enab_on", "enab_off", "outp_on", "outp_off", "set"}

(***************************************************************************)
(* The statements of the script, by source line                            *)
(***************************************************************************)

Stmt(op, cmd, n, next, alt) ==
    [op |-> op, cmd |-> cmd, n |-> n, next |-> next, alt |-> alt]

Write(cmd, next) == Stmt("write", cmd, 0, next, next)
Query(cmd, next) == Stmt("query", cmd, 0, next, next)
Sleep(n, next) == Stmt("sleep", "", n, next, next)

\* lines 69-105: connect and validate both devices
StartupCode ==
    (69 :> Stmt("manager", "", 0, 72, 72)) @@
    (72 :> Stmt("open", "", 0, 79, 79)) @@
    (79 :> Stmt("idn", "*IDN?", 0, 93, 93)) @@
    (93 :> Stmt("connect", "", 0, 99, 99)) @@
    (99 :> Stmt("peer", "", 0, 108, 108))

\* ConfigCode whose second block selects channel 1 again
ConfigCodeSameChannel ==
    (108 :> Write("inst:sel ch1", 109)) @@
    (109 :> Write("source:outp:enab off", 110)) @@
    (110 :> Write("source:volt 5V", 111)) @@
    (111 :> Write("source:curr MAX", 112)) @@
    (112 :> Query("source:volt?", 113)) @@
    (113 :> Query("source:curr?", 115)) @@
    (115 :> Write("inst:sel ch1", 116)) @@
    (116 :> Write("source:outp:enab off", 117)) @@
    (117 :> Write("source:volt 10.25V", 118)) @@
    (118 :> Write("source:curr MAX", 119)) @@
    (119 :> Query("source:volt?", 120)) @@
    (120 :> Query("source:curr?", 123))

\* ConfigCode that goes on to the flash after channel 1
ConfigCodeOnce ==
    (108 :> Write("inst:sel ch1", 109)) @@
    (109 :> Write("source:outp:enab off", 110)) @@
    (110 :> Write("source:volt 5V", 111)) @@
    (111 :> Write("source:curr MAX", 112)) @@
    (112 :> Query("source:volt?", 113)) @@
    (113 :> Query("source:curr?", 123)) @@
    (115 :> Write("inst:sel ch2", 116)) @@
    (116 :> Write("source:outp:enab off", 117)) @@
    (117 :> Write("source:volt 10.25V", 118)) @@
    (118 :> Write("source:curr MAX", 119)) @@
    (119 :> Query("source:volt?", 120)) @@
    (120 :> Query("source:curr?", 123))

\* lines 107-120: initial voltages and currents of both channels
ConfigCode ==
    (108 :> Write("inst:sel ch1", 109)) @@
    (109 :> Write("source:outp:enab off", 110)) @@
    (110 :> Write("source:volt 5V", 111)) @@
    (111 :> Write("source:curr MAX", 112)) @@
    (112 :> Query("source:volt?", 113)) @@
    (113 :> Query("source:curr?", 115)) @@
    (115 :> Write("inst:sel ch2", 116)) @@
    (116 :> Write("source:outp:enab off", 117)) @@
    (117 :> Write("source:volt 10.25V", 118)) @@
    (118 :> Write("source:curr MAX", 119)) @@
    (119 :> Query("source:volt?", 120)) @@
    (120 :> Query("source:curr?", 123))

\* FlashCode that leaves channel 1 enabled when it goes on to channel 2
FlashCodeNoDisable ==
    (123 :> Write("inst:sel ch1", 124)) @@
    (124 :> Write("source:outp:enab on", 125)) @@
    (125 :> Write("source:outp on", 126)) @@
    (126 :> Sleep(1, 127)) @@
    (127 :> Write(":outp off", 128)) @@
    (128 :> Write(":outp off", 129)) @@
    (129 :> Sleep(2, 131)) @@
    (131 :> Write("inst:sel ch2", 132)) @@
    (132 :> Write("source:outp:enab on", 133)) @@
    (133 :> Write("source:outp on", 134)) @@
    (134 :> Sleep(1, 135)) @@
    (135 :> Write("source:outp:enab off", 136)) @@
    (136 :> Write(":outp off", 137)) @@
    (137 :> Sleep(2, 140))

\* FlashCode that ends with channel 2 still enabled
FlashCodeLeftOn ==
    (123 :> Write("inst:sel ch1", 124)) @@
    (124 :> Write("source:outp:enab on", 125)) @@
    (125 :> Write("source:outp on", 126)) @@
    (126 :> Sleep(1, 127)) @@
    (127 :> Write("source:outp:enab off", 128)) @@
    (128 :> Write(":outp off", 129)) @@
    (129 :> Sleep(2, 131)) @@
    (131 :> Write("inst:sel ch2", 132)) @@
    (132 :> Write("source:outp:enab on", 133)) @@
    (133 :> Write("source:outp on", 134)) @@
    (134 :> Sleep(1, 135)) @@
    (135 :> Write(":outp off", 136)) @@
    (136 :> Write(":outp off", 137)) @@
    (137 :> Sleep(2, 140))

\* FlashCode that selects channel 2 before it disables channel 1
FlashCodeReselected ==
    (123 :> Write("inst:sel ch1", 124)) @@
    (124 :> Write("source:outp:enab on", 125)) @@
    (125 :> Write("source:outp on", 126)) @@
    (126 :> Write("inst:sel ch2", 127)) @@
    (127 :> Write("source:outp:enab off", 128)) @@
    (128 :> Write(":outp off", 129)) @@
    (129 :> Sleep(2, 131)) @@
    (131 :> Write("inst:sel ch2", 132)) @@
    (132 :> Write("source:outp:enab on", 133)) @@
    (133 :> Write("source:outp on", 134)) @@
    (134 :> Sleep(1, 135)) @@
    (135 :> Write("source:outp:enab off", 136)) @@
    (136 :> Write(":outp off", 137)) @@
    (137 :> Sleep(2, 140))

\* FlashCode with the optional block left commented out
FlashCodeSkipped ==
    (123 :> Sleep(0, 140))

\* lines 122-137: the outputs are flashed one after the other
FlashCode ==
    (123 :> Write("inst:sel ch1", 124)) @@
    (124 :> Write("source:outp:enab on", 125)) @@
    (125 :> Write("source:outp on", 126)) @@
    (126 :> Sleep(1, 127)) @@
    (127 :> Write("source:outp:enab off", 128)) @@
    (128 :> Write(":outp off", 129)) @@
    (129 :> Sleep(2, 131)) @@
    (131 :> Write("inst:sel ch2", 132)) @@
    (132 :> Write("source:outp:enab on", 133)) @@
    (133 :> Write("source:outp on", 134)) @@
    (134 :> Sleep(1, 135)) @@
    (135 :> Write("source:outp:enab off", 136)) @@
    (136 :> Write(":outp off", 137)) @@
    (137 :> Sleep(2, 140))

\* lines 140-148: the main loop.  "while" goes to next when the test holds
\* and to alt when it fails; the call at 144 enters single_cycle at 35.
MainCode ==
    (140 :> Stmt("assign0", "", 0, 142, 142)) @@
    (142 :> Stmt("while", "", 8, 144, 148)) @@
    (144 :> Stmt("call", "", 0, 35, 35)) @@
    (145 :> Stmt("incr", "", 1, 142, 142)) @@
    (148 :> Stmt("report", "", 0, 148, 148))

\* CycleCode whose cold wait loop asks the operator, in cycle 0, instead
\* of sleeping
CycleCodeGateInLoop ==
    (35 :> Stmt("set", "", -40, 36, 36)) @@
    (36 :> Stmt("poll", "", -40, 39, 37)) @@
    (37 :> Stmt("checkpoint", "", 0, 36, 36)) @@
    (39 :> Write("inst:sel ch1", 40)) @@
    (40 :> Write("source:outp:enab on", 41)) @@
    (41 :> Write("source:outp on", 42)) @@
    (42 :> Sleep(1200, 44)) @@
    (44 :> Sleep(3600, 45)) @@
    (45 :> Stmt("checkpoint", "", 7, 48, 48)) @@
    (48 :> Write("source:outp:enab off", 49)) @@
    (49 :> Write(":outp off", 50)) @@
    (50 :> Sleep(2, 52)) @@
    (52 :> Stmt("set", "", 0, 53, 53)) @@
    (53 :> Stmt("poll", "", 0, 55, 54)) @@
    (54 :> Sleep(30, 53)) @@
    (55 :> Write("inst:sel ch2", 56)) @@
    (56 :> Write("source:outp:enab on", 57)) @@
    (57 :> Write("source:outp on", 58)) @@
    (58 :> Sleep(900, 60)) @@
    (60 :> Sleep(3600, 61)) @@
    (61 :> Stmt("checkpoint", "", 7, 64, 64)) @@
    (64 :> Write("source:outp:enab off", 65)) @@
    (65 :> Write(":outp off", 66)) @@
    (66 :> Sleep(2, 145))

\* lines 33-66: single_cycle.  "poll" is the while loop around
\* check_chamber: alt is the sleep of its body, next the line after the
\* loop.  "checkpoint" is the if around input() with n the cycle it names.
\* The last statement returns to line 145 of the caller.
CycleCode ==
    (35 :> Stmt("set", "", -40, 36, 36)) @@
    (36 :> Stmt("poll", "", -40, 39, 37)) @@
    (37 :> Sleep(30, 36)) @@
    (39 :> Write("inst:sel ch1", 40)) @@
    (40 :> Write("source:outp:enab on", 41)) @@
    (41 :> Write("source:outp on", 42)) @@
    (42 :> Sleep(1200, 44)) @@
    (44 :> Sleep(3600, 45)) @@
    (45 :> Stmt("checkpoint", "", 7, 48, 48)) @@
    (48 :> Write("source:outp:enab off", 49)) @@
    (49 :> Write(":outp off", 50)) @@
    (50 :> Sleep(2, 52)) @@
    (52 :> Stmt("set", "", 0, 53, 53)) @@
    (53 :> Stmt("poll", "", 0, 55, 54)) @@
    (54 :> Sleep(30, 53)) @@
    (55 :> Write("inst:sel ch2", 56)) @@
    (56 :> Write("source:outp:enab on", 57)) @@
    (57 :> Write("source:outp on", 58)) @@
    (58 :> Sleep(900, 60)) @@
    (60 :> Sleep(3600, 61)) @@
    (61 :> Stmt("checkpoint", "", 7, 64, 64)) @@
    (64 :> Write("source:outp:enab off", 65)) @@
    (65 :> Write(":outp off", 66)) @@
    (66 :> Sleep(2, 145))

Code == StartupCode @@ ConfigCode @@ FlashCode @@ MainCode @@ CycleCode

Region(line) ==
    IF line \in DOMAIN ConfigCode THEN "config"
    ELSE IF line \in DOMAIN FlashCode THEN "flash"
    ELSE IF line \in DOMAIN CycleCode THEN "cycle"
    ELSE "other"

Regions == {"config", "flash", "cycle", "other"}

(***************************************************************************)
(* Reading a token as a number, to say what a device reported              *)
(***************************************************************************)

\* the code points of "0".."9"; 43, 45 and 46 below are "+", "-" and "."
DigitChars == 48..57

DigitVal(c) == c - 48

RECURSIVE DigitsValue(_, _)
DigitsValue(cs, acc) ==
    IF cs = <<>> THEN acc ELSE DigitsValue(Tail(cs), 10 * acc + DigitVal(Head(cs)))

AllDigits(cs) == \A k \in 1..Len(cs) : cs[k] \in DigitChars

Unsigned(cs) == IF cs # <<>> /\ Head(cs) \in {45, 43} THEN Tail(cs) ELSE cs

\* an optional sign, digits, and an optional point with digits after it
IsNumeric(cs) ==
    LET parts == SplitOn(Unsigned(cs), 46, <<>>, <<>>)
    IN  /\ Len(parts) \in {1, 2}
        /\ parts[1] # <<>>
        /\ \A k \in 1..Len(parts) : AllDigits(parts[k])

\* the token reads as the whole number n
ReadsAs(cs, n) ==
    /\ IsNumeric(cs)
    /\ LET parts == SplitOn(Unsigned(cs), 46, <<>>, <<>>)
           whole == DigitsValue(parts[1], 0)
           neg == cs # <<>> /\ Head(cs) = 45
       IN  /\ n = IF neg THEN 0 - whole ELSE whole
           /\ Len(parts) = 2 => DigitsValue(parts[2], 0) = 0

\* the answer of a chamber that reports exactly the temperature n
ReportsTemperature(bytes, n) ==
    /\ ~DecodeFails(bytes)
    /\ Len(split(decode(bytes))) >= 2
    /\ ReadsAs(split(decode(bytes))[2], n)

(***************************************************************************)
(* State                                                                   *)
(***************************************************************************)

VARIABLES
    pc,             \* source line about to be executed
    status,         \* "running", "quit" (quit()), "crashed" (uncaught
                    \* exception) or "finished" (end of the script)
    cycle_counter,  \* the global of line 140; -1 while it is not bound
    cycle_num,      \* the argument of the running single_cycle, -1 outside
    temperature,    \* what the last check_chamber of a wait loop returned
    supply_id,      \* the answer to *IDN?
    supply,         \* the power supply
    chamber,        \* the set-point the chamber received last
    wcount,         \* writes to the supply, by region of the script and kind
    setlog,         \* the targets of the set-point commands sent, in order
    calls,          \* the arguments of the calls of single_cycle, in order
    prompts,        \* the input() prompts issued: the cycle of each
    awaiting,       \* blocked in input()
    reported,       \* line 148 was printed
    settle,         \* waiting since the last disable, and the last enable
    hist,           \* what was observed of the run so far (see NoHistory)
    lastcall,       \* the last call of check_chamber or set_chamber
    envIdeal,       \* so far every device answered as an ideal one would
    failed,         \* some device operation raised
    startupFailed   \* a startup validation failed

progvars ==
    <<pc, status, cycle_counter, cycle_num, temperature, supply_id, supply,
      chamber, wcount, setlog, calls, prompts, awaiting, reported, settle,
      hist>>

vars == <<progvars, lastcall, envIdeal, failed, startupFailed>>

\* time.sleep(2) of lines 50, 66, 129 and 137
SettleDelay == 2

Min(a, b) == IF a < b THEN a ELSE b

NoCall ==
    [fn |-> "", arg |-> 0, set_ok |-> TRUE, x |-> Exchange(TRUE, TRUE, <<>>),
     sent |-> <<>>, exc |-> "", ret |-> PyNone, printed |-> <<>>]

\* time.sleep(1200) + time.sleep(3600) of lines 42 and 44: the cold hold
ColdHold == 4800

\* time.sleep(900) + time.sleep(3600) of lines 58 and 60: the hot hold
HotHold == 4500

\* What is observed of a run:
\*   trace     the lines before the main loop that were executed, in order
\*   readback  the answers to the queries of the configuration
\*   seen      a poll since the last set-point command reported its target
\*   lastOp    the last chamber operation, "set" or "poll"
\*   naps, napSecs   the sleeps since then, and their seconds
\*   gapOp, gapNaps, gapSecs   the same three as the last poll found them
\*   readTarget  the read-back of the last set-point command reported
\*             the target of that command
\*   onFor     seconds slept since the last enable, counted up to ColdHold
\*   held      onFor as the last disable found it
\*   lastSwitch  "on" or "off": the last enable or disable of an output
NoHistory ==
    [trace |-> <<>>, readback |-> <<>>, seen |-> FALSE, lastOp |-> "",
     naps |-> 0, napSecs |-> 0, gapOp |-> "", gapNaps |-> 0, gapSecs |-> 0,
     readTarget |-> FALSE, onFor |-> 0, held |-> 0,
     lastSwitch |-> ""]

\* The supply is in an unknown state when the script starts ("in case it
\* was on", line 109).
SupplyStates ==
    [sel : Channels, enab : [Channels -> BOOLEAN], outp : BOOLEAN,
     volt : [Channels -> {"?"}], curr : [Channels -> {"?"}]]

Init ==
    /\ pc = 69
    /\ status = "running"
    /\ cycle_counter = -1
    /\ cycle_num = -1
    /\ temperature = PyNone
    /\ supply_id = <<>>
    /\ supply \in SupplyStates
    /\ chamber = [has |-> FALSE, target |-> 0]
    /\ wcount = [r \in Regions |-> [c \in Classes |-> 0]]
    /\ setlog = <<>>
    /\ calls = <<>>
    /\ prompts = <<>>
    /\ awaiting = FALSE
    /\ reported = FALSE
    /\ settle = [lastDisabled |-> 0, since |-> 0,
                 enabled |-> 0, prev |-> 0, gap |-> 0]
    /\ hist = NoHistory
    /\ lastcall = NoCall
    /\ envIdeal = TRUE
    /\ failed = FALSE
    /\ startupFailed = FALSE

Running(op) == status = "running" /\ pc \in DOMAIN Code /\ Code[pc].op = op

\* An uncaught exception ends the process where it is.
Crash ==
    /\ status' = "crashed"
    /\ failed' = TRUE
    /\ envIdeal' = FALSE
    /\ UNCHANGED pc

\* quit() after a failed startup validation
Quit ==
    /\ status' = "quit"
    /\ startupFailed' = TRUE
    /\ envIdeal' = FALSE
    /\ UNCHANGED <<pc, failed>>

Goto(line) == pc' = line /\ UNCHANGED status

\* The statement at pc as the history sees it, once the step has set
\* status and lastcall.  A statement that raised or quit leaves no mark.
Seen(h) ==
    LET st == Code[pc]
        prerun == DOMAIN StartupCode \cup DOMAIN ConfigCode
                      \cup DOMAIN FlashCode
        traced == IF pc \in prerun
                  THEN [h EXCEPT !.trace = Append(@, pc)] ELSE h
    IN  CASE st.op = "query" ->
               [traced EXCEPT !.readback = Append(@,
                   [ch |-> supply.sel, cmd |-> st.cmd,
                    value |-> SupplyQuery(supply, st.cmd)])]
          [] st.op = "sleep" ->
               [traced EXCEPT !.naps = @ + 1, !.napSecs = @ + st.n,
                              !.onFor = Min(ColdHold, @ + st.n)]
          [] st.op = "write" /\ st.cmd = "source:outp:enab on" ->
               [traced EXCEPT !.onFor = 0, !.lastSwitch = "on"]
          [] st.op = "write" /\ st.cmd = "source:outp:enab off" ->
               [traced EXCEPT !.held = h.onFor, !.lastSwitch = "off"]
          [] st.op = "set" ->
               [traced EXCEPT !.seen = FALSE, !.lastOp = "set",
                              !.naps = 0, !.napSecs = 0,
                              !.readTarget =
                                  ReportsTemperature(lastcall'.x.bytes, st.n)]
          [] st.op = "poll" ->
               [traced EXCEPT
                   !.seen = @ \/ ReportsTemperature(lastcall'.x.bytes, st.n),
                   !.gapOp = h.lastOp, !.gapNaps = h.naps,
                   !.gapSecs = h.napSecs,
                   !.lastOp = "poll", !.naps = 0, !.napSecs = 0]
          [] OTHER -> traced

Record ==
    hist' = IF status' \in {"crashed", "quit"} THEN hist ELSE Seen(hist)

(***************************************************************************)
(* Startup, lines 69-105                                                   *)
(***************************************************************************)

\* line 69: rm = pyvisa.ResourceManager(), outside any try: when it raises
\* (no VISA library) the script dies before anything is printed.
ResourceManager ==
    /\ Running("manager")
    /\ \E o \in ManagerOutcomes :
          IF o = "ok"
          THEN Goto(Code[pc].next) /\ UNCHANGED <<envIdeal, failed, startupFailed>>
          ELSE Crash /\ UNCHANGED startupFailed
    /\ UNCHANGED <<cycle_counter, cycle_num, temperature, supply_id, supply,
                   chamber, wcount, setlog, calls, prompts, awaiting,
                   reported, settle, lastcall>>
    /\ Record

\* lines 71-78
OpenResource ==
    /\ Running("open")
    /\ \E o \in OpenOutcomes :
          IF o = "ok"
          THEN Goto(Code[pc].next) /\ UNCHANGED <<envIdeal, failed, startupFailed>>
          ELSE IF o = "VisaIOError"
          THEN Quit
          ELSE Crash /\ UNCHANGED startupFailed
    /\ UNCHANGED <<cycle_counter, cycle_num, temperature, supply_id, supply,
                   chamber, wcount, setlog, calls, prompts, awaiting,
                   reported, settle, lastcall>>
    /\ Record

\* Identify that reports a wrong identity and goes on
IdentifyUnchecked ==
    /\ Running("idn")
    /\ \E id \in SupplyIds :
          /\ supply_id' = id
          /\ Goto(Code[pc].next)
          /\ startupFailed' = ~Contains(id, VendorMarker)
          /\ envIdeal' = (envIdeal /\ Contains(id, VendorMarker))
          /\ UNCHANGED failed
    /\ UNCHANGED <<cycle_counter, cycle_num, temperature, supply,
                   chamber, wcount, setlog, calls, prompts, awaiting,
                   reported, settle, lastcall>>
    /\ Record

\* lines 79-86.  inst.query("*IDN?") may raise, and nothing catches it:
\* supply_id is then not bound.
Identify ==
    /\ Running("idn")
    /\ \E ok \in BOOLEAN, id \in SupplyIds :
          IF ok
          THEN /\ supply_id' = id
               /\ IF Contains(id, VendorMarker)
                  THEN Goto(Code[pc].next)
                       /\ UNCHANGED <<envIdeal, failed, startupFailed>>
                  ELSE Quit
          ELSE Crash /\ UNCHANGED <<supply_id, startupFailed>>
    /\ UNCHANGED <<cycle_counter, cycle_num, temperature, supply,
                   chamber, wcount, setlog, calls, prompts, awaiting,
                   reported, settle, lastcall>>
    /\ Record

\* lines 90-98: only socket.timeout is caught
Connect ==
    /\ Running("connect")
    /\ \E o \in ConnectOutcomes :
          IF o = "ok"
          THEN Goto(Code[pc].next) /\ UNCHANGED <<envIdeal, failed, startupFailed>>
          ELSE IF o = "timeout"
          THEN Quit
          ELSE Crash /\ startupFailed' = TRUE
    /\ UNCHANGED <<cycle_counter, cycle_num, temperature, supply_id, supply,
                   chamber, wcount, setlog, calls, prompts, awaiting,
                   reported, settle, lastcall>>
    /\ Record

\* lines 99-105.  s.getpeername() is called outside any try: when it
\* raises the script dies at line 99.
PeerCheck ==
    /\ Running("peer")
    /\ \E ok \in BOOLEAN, peer \in PeerNames :
          IF ~ok
          THEN Crash /\ UNCHANGED startupFailed
          ELSE IF peer = ChamberAddress
          THEN Goto(Code[pc].next) /\ UNCHANGED <<envIdeal, failed, startupFailed>>
          ELSE Quit
    /\ UNCHANGED <<cycle_counter, cycle_num, temperature, supply_id, supply,
                   chamber, wcount, setlog, calls, prompts, awaiting,
                   reported, settle, lastcall>>
    /\ Record

(***************************************************************************)
(* Statements on the supply, sleeps and the operator                       *)
(***************************************************************************)

\* What a write means for the settle bookkeeping: a disable restarts the
\* wait, an enable records how long was waited since the last disable.
SettleAfter(st, sel, cmd) ==
    CASE cmd \in {"source:outp:enab off", ":outp off"} ->
            [st EXCEPT !.lastDisabled = sel, !.since = 0]
      [] cmd = "source:outp:enab on" ->
            [st EXCEPT !.enabled = sel, !.prev = st.lastDisabled,
                       !.gap = st.since]
      [] OTHER -> st

\* inst.write(cmd)
InstWrite ==
    /\ Running("write")
    /\ \E ok \in BOOLEAN :
          IF ok
          THEN /\ supply' = SupplyWrite(supply, Code[pc].cmd)
               /\ wcount' = [wcount EXCEPT
                      ![Region(pc)][Class(Code[pc].cmd)] = @ + 1]
               /\ settle' = SettleAfter(settle,
                                SupplyWrite(supply, Code[pc].cmd).sel,
                                Code[pc].cmd)
               /\ Goto(Code[pc].next)
               /\ UNCHANGED <<envIdeal, failed>>
          ELSE Crash /\ UNCHANGED <<supply, wcount, settle>>
    /\ UNCHANGED <<cycle_counter, cycle_num, temperature, supply_id,
                   chamber, setlog, calls, prompts, awaiting, reported,
                   lastcall, startupFailed>>
    /\ Record

\* print(... + inst.query(cmd)), lines 112-113 and 119-120
InstQuery ==
    /\ Running("query")
    /\ \E ok \in BOOLEAN :
          IF ok
          THEN Goto(Code[pc].next) /\ UNCHANGED <<envIdeal, failed>>
          ELSE Crash
    /\ UNCHANGED <<cycle_counter, cycle_num, temperature, supply_id, supply,
                   chamber, wcount, setlog, calls, prompts, awaiting,
                   reported, settle, lastcall, startupFailed>>
    /\ Record

\* time.sleep(n), and the checkpoint "if cycle_num == 7: input(...)": the
\* prompt is printed, the script blocks, and goes on when the operator
\* presses RETURN.
Block ==
    /\ status = "running" /\ pc \in DOMAIN Code
    /\ Code[pc].op \in {"sleep", "checkpoint"}
    /\ IF Code[pc].op = "sleep"
       THEN /\ settle' = [settle EXCEPT
                   !.since = Min(SettleDelay, @ + Code[pc].n)]
            /\ Goto(Code[pc].next)
            /\ UNCHANGED <<prompts, awaiting>>
       ELSE IF cycle_num # Code[pc].n
       THEN Goto(Code[pc].next) /\ UNCHANGED <<prompts, awaiting, settle>>
       ELSE IF ~awaiting
       THEN /\ prompts' = Append(prompts, cycle_num)
            /\ awaiting' = TRUE
            /\ UNCHANGED <<pc, status, settle>>
       ELSE /\ awaiting' = FALSE
            /\ Goto(Code[pc].next)
            /\ UNCHANGED <<prompts, settle>>
    /\ UNCHANGED <<cycle_counter, cycle_num, temperature, supply_id, supply,
                   chamber, wcount, setlog, calls, reported, lastcall,
                   envIdeal, failed, startupFailed>>
    /\ Record

(***************************************************************************)
(* Statements on the chamber                                               *)
(***************************************************************************)

CallOfSet(set_ok, x, t) ==
    LET r == set_chamber(set_ok, x, t)
    IN  [fn |-> "set_chamber", arg |-> t, set_ok |-> set_ok, x |-> x,
         sent |-> r.sent, exc |-> r.exc, ret |-> PyNone,
         printed |-> r.printed]

CallOfCheck(x) ==
    LET r == check_chamber(x)
    IN  [fn |-> "check_chamber", arg |-> 0, set_ok |-> TRUE, x |-> x,
         sent |-> r.sent, exc |-> r.exc, ret |-> r.ret, printed |-> <<>>]

\* SetChamber that goes on to the wait loop only when the read-back
\* reported the target, and sets the chamber again otherwise
SetChamberUntilReached ==
    /\ Running("set")
    /\ \E set_ok \in BOOLEAN, x \in QueryExchanges :
          LET t == Code[pc].n
              c == CallOfSet(set_ok, x, t)
          IN  /\ lastcall' = c
              /\ IF set_ok
                 THEN /\ chamber' = [has |-> TRUE, target |-> t]
                      /\ setlog' = Append(setlog, t)
                 ELSE UNCHANGED <<chamber, setlog>>
              /\ IF c.exc = ""
                 THEN /\ IF ReportsTemperature(x.bytes, t)
                         THEN Goto(Code[pc].next)
                         ELSE UNCHANGED <<pc, status>>
                      /\ envIdeal' = (envIdeal /\ ReportsTemperature(x.bytes, t))
                      /\ UNCHANGED failed
                 ELSE Crash
              /\ Record
    /\ UNCHANGED <<cycle_counter, cycle_num, temperature, supply_id, supply,
                   wcount, calls, prompts, awaiting, reported, settle,
                   startupFailed>>

\* set_chamber(sock, t) of lines 35 and 52.  The chamber has the new
\* set-point as soon as the command was sent.
SetChamber ==
    /\ Running("set")
    /\ \E set_ok \in BOOLEAN, x \in QueryExchanges :
          LET t == Code[pc].n
              c == CallOfSet(set_ok, x, t)
          IN  /\ lastcall' = c
              /\ IF set_ok
                 THEN /\ chamber' = [has |-> TRUE, target |-> t]
                      /\ setlog' = Append(setlog, t)
                 ELSE UNCHANGED <<chamber, setlog>>
              /\ IF c.exc = ""
                 THEN /\ Goto(Code[pc].next)
                      /\ envIdeal' = (envIdeal /\ ReportsTemperature(x.bytes, t))
                      /\ UNCHANGED failed
                 ELSE Crash
              /\ Record
    /\ UNCHANGED <<cycle_counter, cycle_num, temperature, supply_id, supply,
                   wcount, calls, prompts, awaiting, reported, settle,
                   startupFailed>>

\* WaitPoll with a timeout: the loop is left after one poll, whatever the
\* chamber reported
WaitPollGivingUp ==
    /\ Running("poll")
    /\ \E x \in QueryExchanges :
          LET c == CallOfCheck(x)
          IN  /\ lastcall' = c
              /\ IF c.exc = ""
                 THEN /\ temperature' = c.ret
                      /\ Goto(Code[pc].next)
                      /\ envIdeal' = (envIdeal /\
                             ReportsTemperature(x.bytes, chamber.target))
                      /\ UNCHANGED failed
                 ELSE Crash /\ UNCHANGED temperature
    /\ UNCHANGED <<cycle_counter, cycle_num, supply_id, supply, chamber,
                   wcount, setlog, calls, prompts, awaiting, reported,
                   settle, startupFailed>>
    /\ Record

\* WaitPoll that sleeps and asks again when the query raised
WaitPollRetrying ==
    /\ Running("poll")
    /\ \E x \in QueryExchanges :
          LET c == CallOfCheck(x)
          IN  /\ lastcall' = c
              /\ IF c.exc = ""
                 THEN /\ temperature' = c.ret
                      /\ Goto(IF PyNotEqual(c.ret, PyInt(Code[pc].n))
                              THEN Code[pc].alt
                              ELSE Code[pc].next)
                      /\ envIdeal' = (envIdeal /\
                             ReportsTemperature(x.bytes, chamber.target))
                      /\ UNCHANGED failed
                 ELSE /\ Goto(Code[pc].alt)
                      /\ failed' = TRUE
                      /\ envIdeal' = FALSE
                      /\ UNCHANGED temperature
    /\ UNCHANGED <<cycle_counter, cycle_num, supply_id, supply, chamber,
                   wcount, setlog, calls, prompts, awaiting, reported,
                   settle, startupFailed>>
    /\ Record

\* "while check_chamber(sock) != target:" of lines 36 and 53: one query and
\* the test.  The loop is left when the test fails.
WaitPoll ==
    /\ Running("poll")
    /\ \E x \in QueryExchanges :
          LET c == CallOfCheck(x)
          IN  /\ lastcall' = c
              /\ IF c.exc = ""
                 THEN /\ temperature' = c.ret
                      /\ Goto(IF PyNotEqual(c.ret, PyInt(Code[pc].n))
                              THEN Code[pc].alt
                              ELSE Code[pc].next)
                      /\ envIdeal' = (envIdeal /\
                             ReportsTemperature(x.bytes, chamber.target))
                      /\ UNCHANGED failed
                 ELSE Crash /\ UNCHANGED temperature
    /\ UNCHANGED <<cycle_counter, cycle_num, supply_id, supply, chamber,
                   wcount, setlog, calls, prompts, awaiting, reported,
                   settle, startupFailed>>
    /\ Record

(***************************************************************************)
(* The main loop, lines 140-148                                            *)
(***************************************************************************)

MainLoop ==
    /\ status = "running" /\ pc \in DOMAIN MainCode
    /\ LET st == Code[pc]
       IN  CASE st.op = "assign0" ->
                  /\ cycle_counter' = 0
                  /\ Goto(st.next)
                  /\ UNCHANGED <<cycle_num, calls, reported>>
             [] st.op = "while" ->
                  /\ Goto(IF cycle_counter < st.n THEN st.next ELSE st.alt)
                  /\ UNCHANGED <<cycle_counter, cycle_num, calls, reported>>
             [] st.op = "call" ->
                  /\ cycle_num' = cycle_counter
                  /\ calls' = Append(calls, cycle_counter)
                  /\ Goto(st.next)
                  /\ UNCHANGED <<cycle_counter, reported>>
             [] st.op = "incr" ->
                  /\ cycle_counter' = cycle_counter + st.n
                  /\ cycle_num' = -1
                  /\ Goto(st.next)
                  /\ UNCHANGED <<calls, reported>>
             [] st.op = "report" ->
                  /\ reported' = TRUE
                  /\ status' = "finished"
                  /\ UNCHANGED <<pc, cycle_counter, cycle_num, calls>>
    /\ UNCHANGED <<temperature, supply_id, supply, chamber, wcount, setlog,
                   prompts, awaiting, settle, lastcall, envIdeal, failed,
                   startupFailed>>
    /\ Record

Next ==
    \/ ResourceManager
    \/ OpenResource
    \/ Identify
    \/ Connect
    \/ PeerCheck
    \/ InstWrite
    \/ InstQuery
    \/ Block
    \/ SetChamber
    \/ WaitPoll
    \/ MainLoop

Spec == Init /\ [][Next]_vars

\* The script is one thread: while it is running its next statement is
\* executed, every sleep ends and the operator answers every prompt.
FairSpec == Spec /\ WF_vars(Next)

(***************************************************************************)
(* check_chamber and set_chamber called once on their own, on a socket     *)
(* that may answer anything, with any target up to MaxTarget in size       *)
(***************************************************************************)

MaxTarget == 45

Targets == (0 - MaxTarget)..MaxTarget

FnInit == Init /\ supply.sel = 1 /\ supply.outp = FALSE
               /\ \A c \in Channels : ~supply.enab[c]

CallCheckChamber ==
    /\ lastcall = NoCall
    /\ \E x \in QueryExchanges : lastcall' = CallOfCheck(x)
    /\ UNCHANGED <<progvars, envIdeal, failed, startupFailed>>

CallSetChamber ==
    /\ lastcall = NoCall
    /\ \E set_ok \in BOOLEAN, x \in QueryExchanges, t \in Targets :
          lastcall' = CallOfSet(set_ok, x, t)
    /\ UNCHANGED <<progvars, envIdeal, failed, startupFailed>>

FnNext == CallCheckChamber \/ CallSetChamber

FnSpec == FnInit /\ [][FnNext]_vars

(***************************************************************************)
(* Properties                                                              *)
(***************************************************************************)

InCycle == pc \in DOMAIN CycleCode

Total(class) ==
    wcount["config"][class] + wcount["flash"][class]
        + wcount["cycle"][class] + wcount["other"][class]

\* C1: with an ideal chamber, supply and operator the run started at
\* cycle_counter = 0 leaves the wait loops of every cycle, finishes the 8
\* calls of single_cycle and reaches the completion report.  Stated for
\* every fair run: either a device stops answering as an ideal one, or the
\* report is reached.
C1_RunCompletes == <>(~envIdeal \/ reported)

\* C2: cycle_counter starts at 0, never decreases, changes only by +1 after
\* single_cycle has returned and never exceeds 8; single_cycle is invoked
\* with 0,1,...,7 in order, each once, and the report is issued exactly
\* when the counter is 8.
C2_CounterAndCalls ==
    /\ [](/\ cycle_counter \in -1..8
          /\ (reported => cycle_counter = 8)
          /\ \A k \in 1..Len(calls) : calls[k] = k - 1)
    /\ [][cycle_counter' # cycle_counter =>
             \/ (pc = 140 /\ cycle_counter' = 0)
             \/ (pc = 145 /\ cycle_counter' = cycle_counter + 1)]_vars
    /\ <>(~envIdeal \/ (reported /\ calls = <<0, 1, 2, 3, 4, 5, 6, 7>>))

C4_SettleBeforeOtherChannel ==
    (settle.enabled # 0 /\ settle.prev \notin {0, settle.enabled})
        => settle.gap >= SettleDelay

\* the hold phases entered and left so far, as the place in the script says
HoldsEntered ==
    IF InCycle THEN 2 * cycle_counter + (IF pc > 40 THEN 1 ELSE 0)
                        + (IF pc > 56 THEN 1 ELSE 0)
    ELSE IF pc = 145 THEN 2 * cycle_counter + 2
    ELSE IF cycle_counter < 0 THEN 0 ELSE 2 * cycle_counter

HoldsLeft ==
    IF InCycle THEN 2 * cycle_counter + (IF pc > 48 THEN 1 ELSE 0)
                        + (IF pc > 64 THEN 1 ELSE 0)
    ELSE IF pc = 145 THEN 2 * cycle_counter + 2
    ELSE IF cycle_counter < 0 THEN 0 ELSE 2 * cycle_counter

PastFlash == pc \in DOMAIN MainCode \cup DOMAIN CycleCode

\* C5, as claimed: since the process started the supply has received one
\* enable and one disable per hold phase and none elsewhere, 16 of each
\* when the report is reached.
C5_OnlyHoldPhaseSwitching ==
    /\ Total("enab_on") = HoldsEntered
    /\ Total("enab_off") = HoldsLeft
    /\ reported => (Total("enab_on") = 16 /\ Total("enab_off") = 16)

\* C5, amended: besides one enable and one disable per hold phase, the
\* supply has received 2 enables and 2 disables from the self-test flash
\* and 2 output-disable commands from the channel configuration, all
\* before the first cycle; that makes 18 enables and 20 disables when the
\* report is reached.
C5_FlashAndConfigCounted ==
    /\ wcount["config"]["enab_on"] = 0
    /\ wcount["other"]["enab_on"] = 0 /\ wcount["other"]["enab_off"] = 0
    /\ wcount["cycle"]["enab_on"] = HoldsEntered
    /\ wcount["cycle"]["enab_off"] = HoldsLeft
    /\ PastFlash => /\ wcount["config"]["enab_off"] = 2
                    /\ wcount["flash"]["enab_on"] = 2
                    /\ wcount["flash"]["enab_off"] = 2
    /\ ~PastFlash => (wcount["flash"]["enab_on"] <= 2
                        /\ wcount["flash"]["enab_off"] <= 2
                        /\ wcount["config"]["enab_off"] <= 2)
    /\ reported => (Total("enab_on") = 18 /\ Total("enab_off") = 20)

\* C5 witness: the first cycle is under way with the flash and the
\* configuration behind it: 2 enables and 4 disables, no hold phase yet.
C5_Witness ==
    /\ pc = 37 /\ status = "running"
    /\ Total("enab_on") = 2 /\ Total("enab_off") = 4
    /\ HoldsEntered = 0

\* C6: every cycle issues exactly two set-point commands, -40 and then 0; a
\* completed run has issued 16; none is issued before the first cycle or
\* after the last, so the last set-point at completion is 0.
C6_TwoSetPointsPerCycle ==
    /\ [](/\ (~InCycle /\ calls = <<>>) => setlog = <<>>
          /\ \A k \in 1..Len(setlog) :
                setlog[k] = IF k % 2 = 1 THEN -40 ELSE 0
          /\ reported => (Len(setlog) = 16 /\ chamber.target = 0))
    /\ <>(~envIdeal \/ (reported /\ Len(setlog) = 16))

\* what check_chamber was given, when the exchange itself went through
Answered(c) == c.x.send_ok /\ c.x.recv_ok /\ ~DecodeFails(c.x.bytes)

TokensOf(c) == split(decode(c.x.bytes))

\* C7: for a response with at least 2 tokens whose second token is numeric
\* check_chamber returns the number that token reads as; for a response
\* with fewer tokens or a second token that is not numeric it fails.
C7_QueryReturnsNumber ==
    (lastcall.fn = "check_chamber" /\ Answered(lastcall)) =>
        IF Len(TokensOf(lastcall)) >= 2 /\ IsNumeric(TokensOf(lastcall)[2])
        THEN /\ lastcall.exc = ""
             /\ lastcall.ret.t \in {"int", "float"}
        ELSE lastcall.exc # ""

\* how a whole number is written: digits without a leading zero, after a
\* minus sign when it is negative
Writes(text, n) ==
    \E len \in 1..3 : \E ds \in [1..len -> 0..9] :
        /\ len = 1 \/ ds[1] # 0
        /\ DigitsValue([k \in 1..len |-> ds[k] + 48], 0)
              = (IF n < 0 THEN 0 - n ELSE n)
        /\ text = (IF n < 0 THEN "-" ELSE "")
                     \o Join([k \in 1..len |-> Digit(ds[k])])

\* C8: for every target t, set_chamber sends exactly one set-point command
\* that embeds t as written followed by the fixed suffix, then makes
\* exactly one status query, and returns without raising whatever the
\* read-back is, equal to t or not.
C8_SetSendsOnceAndReturns ==
    (lastcall.fn = "set_chamber" /\ lastcall.set_ok) =>
        /\ Len(lastcall.sent) >= 1
        /\ \E text \in {str(lastcall.arg)} :
              /\ Writes(text, lastcall.arg)
              /\ lastcall.sent[1] =
                   "$01E " \o text \o " 10 100 1200 010000000000000000000 \r"
        /\ lastcall.x.send_ok => lastcall.sent[2] = "$01I \r"
                                   /\ Len(lastcall.sent) = 2
        /\ (Answered(lastcall) /\ Len(TokensOf(lastcall)) >= 2)
              => lastcall.exc = ""

\* C8 witness: a set-point of -40 whose read-back is 25: one command, one
\* query, no exception.
C8_Witness ==
    /\ lastcall.fn = "set_chamber" /\ lastcall.arg = -40
    /\ Answered(lastcall) /\ Len(TokensOf(lastcall)) >= 2
    /\ ReadsAs(TokensOf(lastcall)[2], 25)
    /\ lastcall.exc = "" /\ Len(lastcall.sent) = 2

\* C9: a failed startup validation (supply not found, identity without the
\* vendor marker, chamber connection failed, wrong peer) stops the process
\* at that step: no configuration, enable or set-point command is issued
\* afterwards, no cycle starts, the counter is never incremented and no
\* step is retried.
C9_StartupFailureTerminal ==
    /\ [](startupFailed =>
            /\ status \in {"quit", "crashed"}
            /\ pc \in DOMAIN StartupCode
            /\ \A r \in Regions : \A c \in Classes : wcount[r][c] = 0
            /\ setlog = <<>> /\ calls = <<>>
            /\ cycle_counter = -1 /\ cycle_num = -1)
    /\ [][startupFailed => UNCHANGED progvars]_vars

\* C9 witness: the supply answered "Tek" to *IDN? and the script quit at
\* the identity check.
C9_Witness ==
    /\ startupFailed /\ status = "quit" /\ pc = 79
    /\ supply_id = <<"T", "e", "k">>

\* C10: when a chamber or supply operation fails during single_cycle the
\* run ends there: nothing is retried, no later phase or cycle runs, the
\* counter keeps the value it had when the cycle started and the report is
\* never issued.
C10_FailureInCycleFatal ==
    /\ []((failed /\ InCycle) =>
            /\ status = "crashed"
            /\ ~reported
            /\ cycle_counter = cycle_num
            /\ Len(calls) = cycle_counter + 1)
    /\ [][(failed /\ InCycle) => UNCHANGED progvars]_vars

\* C10 witness: a status query of the cold wait loop of cycle 0 timed out
\* and the script crashed at line 36.
C10_Witness ==
    /\ failed /\ status = "crashed" /\ pc = 36 /\ cycle_num = 0
    /\ lastcall.fn = "check_chamber" /\ lastcall.exc = "timeout"

(***************************************************************************)
(* The wait loops                                                          *)
(***************************************************************************)

\* The answer the last status query of a wait loop read
LastReply == lastcall.x.bytes

\* C11: a wait loop is left at the first poll whose reply reports the
\* target of the loop (-40 at line 36, 0 at line 53), so the sleep of the
\* loop (lines 37 and 54) is never reached after a poll that reported the
\* target; and between two consecutive polls there is exactly one sleep, of
\* 30 s.
C11_LoopLeftAtTarget ==
    /\ pc = Code[36].alt => ~ReportsTemperature(LastReply, Code[36].n)
    /\ pc = Code[53].alt => ~ReportsTemperature(LastReply, Code[53].n)
    /\ hist.gapOp = "poll" => (hist.gapNaps = 1 /\ hist.gapSecs = 30)

\* The lines of single_cycle from a set-point command to the end of its
\* wait loop: 35-37 and 52-54
WaitLines == {35, 36, 37, 52, 53, 54}

\* C12: inside single_cycle a channel output is enabled only when a poll
\* issued after the last set-point command has reported the target of its
\* loop; and as long as no poll since that command has reported the target
\* the controller is still at the set-point command or in its wait loop,
\* running (or ended by an exception, C10): it has not enabled a channel,
\* not given up and not advanced to the hold phase.
C12_NoEnableBeforeTarget ==
    /\ (InCycle /\ (supply.enab[1] \/ supply.enab[2])) => hist.seen
    /\ (InCycle /\ ~hist.seen) =>
          /\ pc \in WaitLines
          /\ status = "running" \/ (status = "crashed" /\ failed)

\* C12 happens: the second poll of the cold wait loop has not reported -40
\* either, and the controller goes to sleep again with no channel enabled
C12_Witness ==
    /\ pc = 37 /\ status = "running"
    /\ hist.gapOp = "poll"
    /\ ~hist.seen
    /\ ~ReportsTemperature(LastReply, -40)
    /\ ~supply.enab[1] /\ ~supply.enab[2]

\* C13: when set_chamber has returned the controller is at the first poll
\* of the wait loop (line 36 or 53), whether or not the read-back reported
\* the target, and that poll follows with no sleep in between; set_chamber
\* makes one read-back exchange, every status query sends one status
\* request, and what it returns is the second token of the bytes received
\* in answer to that request.
C13_WaitingFollowsSet ==
    /\ hist.gapOp = "set" => (hist.gapNaps = 0 /\ hist.gapSecs = 0)
    /\ (status = "running" /\ lastcall.fn = "set_chamber") =>
          /\ pc \in {36, 53}
          /\ lastcall.exc = ""
          /\ Len(lastcall.sent) = 2 /\ lastcall.sent[2] = StatusRequest
    /\ (lastcall.fn = "check_chamber" /\ lastcall.exc = "") =>
          /\ lastcall.sent = <<StatusRequest>>
          /\ lastcall.ret = PyStr(TokensOf(lastcall)[2])

\* C13 happens: the read-back of set_chamber(-40) did not report -40, and
\* the first poll of the wait loop has been made with no sleep before it
C13_Witness ==
    /\ status = "running" /\ pc = 37
    /\ hist.gapOp = "set" /\ hist.gapNaps = 0
    /\ ~hist.readTarget
    /\ lastcall.fn = "check_chamber" /\ lastcall.exc = ""

(***************************************************************************)
(* The hold phases                                                         *)
(***************************************************************************)

\* C14: in a cycle the output of channel 1, once enabled, stays enabled
\* for the 4800 s of ramp and dwell before it is disabled (line 48), and
\* the output of channel 2 for 4500 s (line 64); between the enable and
\* the end of the dwell the channel stays enabled.
C14_HoldDurations ==
    /\ pc \in {49, 50} => hist.held >= ColdHold
    /\ pc \in {65, 66} => hist.held >= HotHold
    /\ pc \in 42..44 => supply.enab[1]
    /\ pc \in 58..60 => supply.enab[2]

\* C15: on the checkpoint cycle the prompt is issued after ramp and dwell
\* have elapsed and before the disable: while the controller is blocked on
\* the operator the channel of the phase is enabled and has been for the
\* whole hold; the next set-point command (line 52) comes after the
\* acknowledgment, the disable and the settle delay of 2 s.
C15_CheckpointInsideHold ==
    /\ awaiting =>
          /\ pc = 45 => (supply.enab[1] /\ hist.onFor >= ColdHold)
          /\ pc = 61 => (supply.enab[2] /\ hist.onFor >= HotHold)
    /\ pc = 52 => (~awaiting /\ ~supply.enab[1]
                     /\ settle.since >= SettleDelay)

(***************************************************************************)
(* Before the first cycle                                                  *)
(***************************************************************************)

PreRun == DOMAIN StartupCode \cup DOMAIN ConfigCode \cup DOMAIN FlashCode

\* The step of the pre-run a line belongs to: 1 connect to the supply,
\* 2 validate its identity, 3 connect to the chamber, 4 verify the peer
\* address, 5 configure channel 1, 6 configure channel 2, 7 flash
StepOf(line) ==
    CASE line \in {69, 72} -> 1
      [] line = 79 -> 2
      [] line = 93 -> 3
      [] line = 99 -> 4
      [] line \in 108..113 -> 5
      [] line \in 115..120 -> 6
      [] OTHER -> 7

CyclingStarted ==
    calls # <<>> \/ setlog # <<>> \/ wcount["cycle"]["enab_on"] > 0

\* C16: the statements of the pre-run are executed in the order connect
\* supply, validate identity, connect chamber, verify peer, configure
\* channel 1, configure channel 2, flash, each once; single_cycle is not
\* called, no set-point command is sent and no channel is enabled by a
\* cycle before every statement of the configuration of both channels has
\* been executed; voltages and current limits are written nowhere but in
\* the configuration, once each, and not again once cycling has started.
C16_PreRunOrder ==
    /\ \A i, j \in 1..Len(hist.trace) :
          i < j => /\ hist.trace[i] < hist.trace[j]
                   /\ StepOf(hist.trace[i]) <= StepOf(hist.trace[j])
    /\ pc \in PreRun => StepOf(pc) >= (IF hist.trace = <<>> THEN 1
                            ELSE StepOf(hist.trace[Len(hist.trace)]))
    /\ CyclingStarted =>
          /\ \A l \in PreRun : \E i \in 1..Len(hist.trace) : hist.trace[i] = l
          /\ wcount["config"]["set"] = 4 /\ Len(hist.readback) = 4
    /\ \A r \in Regions \ {"config"} : wcount[r]["set"] = 0
    /\ wcount["config"]["set"] <= 4 /\ wcount["config"]["sel"] <= 2

\* C16 happens: the pre-run is complete and the first cycle has sent its
\* set-point command
C16_Witness ==
    /\ pc = 36 /\ calls = <<0>> /\ setlog = <<-40>>
    /\ Len(hist.trace) = Cardinality(PreRun)
    /\ StepOf(hist.trace[1]) = 1
    /\ StepOf(hist.trace[Len(hist.trace)]) = 7

\* What the configuration of both channels asks back, and of which
\* channel, lines 112-113 and 119-120
ConfiguredReadback ==
    << [ch |-> 1, cmd |-> "source:volt?"], [ch |-> 1, cmd |-> "source:curr?"],
       [ch |-> 2, cmd |-> "source:volt?"], [ch |-> 2, cmd |-> "source:curr?"] >>

\* The queries answered so far, without the answers
Asked ==
    [i \in 1..Len(hist.readback) |->
        [ch |-> hist.readback[i].ch, cmd |-> hist.readback[i].cmd]]

\* C17: the configuration of channel 1 (lines 108-113) and of channel 2
\* (lines 115-120) selects the channel first, then disables its output,
\* then sets voltage (5V, 10.25V) and current limit (MAX), and only then
\* reads both back; the channel selected at the start of a block stays
\* selected through the block, the other channel's values are not
\* touched, and when both blocks are done (line 123) neither output is
\* enabled and voltage and current of channel 1, then of channel 2, have
\* been read back.
C17_ConfigurationSequence ==
    /\ pc \in 109..113 => supply.sel = 1
    /\ pc \in 116..120 => supply.sel = 2
    /\ pc \in 110..113 => ~supply.enab[1]
    /\ pc \in 117..120 => ~supply.enab[2]
    /\ pc \in 108..111 => hist.readback = <<>>
    /\ pc \in 112..113 => (supply.volt[1] = "5V" /\ supply.curr[1] = "MAX")
    /\ pc \in 108..117 => supply.volt[2] = "?"
    /\ pc \in 115..118 => Asked = SubSeq(ConfiguredReadback, 1, 2)
    /\ pc \in 119..120 => (supply.volt[2] = "10.25V" /\ supply.curr[2] = "MAX")
    /\ pc = 123 =>
          /\ ~supply.enab[1] /\ ~supply.enab[2]
          /\ supply.volt = (1 :> "5V" @@ 2 :> "10.25V")
          /\ supply.curr = (1 :> "MAX" @@ 2 :> "MAX")
          /\ Asked = ConfiguredReadback

\* C17 happens: both channels are configured and read back
C17_Witness ==
    /\ pc = 123 /\ status = "running"
    /\ Len(hist.readback) = 4
    /\ wcount["config"]["enab_off"] = 2
    /\ supply.sel = 2

(***************************************************************************)
(* The outputs of the two channels                                         *)
(***************************************************************************)

BothEnabled == supply.enab[1] /\ supply.enab[2]

\* C18, as claimed: from the first command to the supply (the identity
\* query of line 79) on, the outputs of channel 1 and channel 2 are never
\* enabled at the same time.
C18_NeverBothEnabled ==
    Len(hist.trace) >= 2 => ~BothEnabled

\* C18, amended: from the first disable of the configuration (line 109)
\* on, the outputs of channel 1 and channel 2 are never enabled at the
\* same time.
C18_NeverBothOnceDisabled ==
    wcount["config"]["enab_off"] >= 1 => ~BothEnabled

\* C18 happens: the flash has enabled channel 2 alone, after channel 1
C18_Witness ==
    /\ pc = 134 /\ status = "running"
    /\ supply.enab[2] /\ ~supply.enab[1]
    /\ wcount["flash"]["enab_on"] = 2

\* The call and the return of single_cycle, and the report: lines 144,
\* 145 and 148
CallLines == {144, 145, 148}

\* C19: when a set-point command is issued (lines 35 and 52), all through
\* the wait loops (36-37 and 53-54), when single_cycle is called (144,
\* entered at 35) and when it has returned (145), and at the report (148),
\* the outputs of both channels are disabled.
C19_OutputsOffOutsideHolds ==
    pc \in WaitLines \cup CallLines => (~supply.enab[1] /\ ~supply.enab[2])

\* C19 happens: the controller is in the wait loop of cycle 0, after the
\* flash has enabled and disabled both channels
C19_Witness ==
    /\ pc = 37 /\ status = "running" /\ cycle_num = 0
    /\ wcount["flash"]["enab_on"] = 2
    /\ ~supply.enab[1] /\ ~supply.enab[2]

\* The step is a disable that the supply has received
DisableStep ==
    /\ Running("write")
    /\ Code[pc].cmd = "source:outp:enab off"
    /\ status' = "running" /\ pc' = Code[pc].next

\* C20: a disable carries no channel and acts on the selected channel.
\* At every disable that comes after an enable of the run, the last
\* enable or disable was an enable, of the channel that is still selected
\* (no select was issued in between), and that channel is enabled; every
\* disable leaves the selected channel disabled and the state of the other
\* channel as it was.
C20_DisableActsOnEnabledChannel ==
    [][DisableStep =>
          /\ settle.enabled # 0 =>
                /\ hist.lastSwitch = "on"
                /\ supply.sel = settle.enabled
                /\ supply.enab[supply.sel]
          /\ supply'.sel = supply.sel
          /\ ~supply'.enab[supply.sel]
          /\ \A c \in Channels \ {supply.sel} :
                supply'.enab[c] = supply.enab[c]]_vars

\* C20 happens: the flash has disabled channel 1, the channel it had
\* enabled and that was still selected
C20_Witness ==
    /\ pc = 128 /\ status = "running"
    /\ hist.lastSwitch = "off"
    /\ settle.enabled = 1 /\ settle.lastDisabled = 1
    /\ supply.sel = 1 /\ ~supply.enab[1]

=============================================================================
